---- MODULE Spec2Model ----
(***************************************************************************)
(* Model of crates/rattler/src/match_spec_constraints.rs: the DNF          *)
(* constraint algebra (MatchSpecElement, MatchSpecConstraints) and the     *)
(* process-wide COMPLEMENT_CACHE guarded by a RwLock.                      *)
(*                                                                         *)
(* Range<T> is not part of the file; it is modelled from its contract as a *)
(* set of points of T (structural equality = set equality). Version and    *)
(* usize are not bounded by the values a run names: all the values no      *)
(* input names are one further point of the domain.                        *)
(***************************************************************************)
EXTENDS Integers, Sequences, FiniteSets

\* ---------------------------------------------------------------- bounds
NumVersions == 1
NumBuilds == 2
NumThreads == 2
\* Calls a run of the concurrent program makes, and calls a run of the
\* algebra alone makes.
MaxOps == 3
MaxCalls == 6

\* The versions and build numbers that packages and match specs name.
Versions == 0 .. (NumVersions - 1)
Builds == 0 .. (NumBuilds - 1)

\* All of Version and all of usize: the named values and one point standing
\* for every other value, so that a range excluding all named values is
\* not Range::none().
OtherVersion == NumVersions
OtherBuild == NumBuilds
AllVersions == Versions \cup {OtherVersion}
AllBuilds == Builds \cup {OtherBuild}
Threads == 1 .. NumThreads

\* PackageRecord: only the two fields the algebra reads.
PackageRecord == [version : Versions, build_number : Builds]

\* Option<T> as a set with at most one member.
OptNone == {}
OptSome(x) == {x}

\* MatchSpec: version is the Range the version expression denotes (if any),
\* build_number the exact literal (if any).
MatchSpec == [version : {OptNone} \cup {OptSome(r) : r \in SUBSET AllVersions},
              build_number : {OptNone} \cup {OptSome(b) : b \in Builds}]

\* ------------------------------------------------------------- Range<T>
Range_none == {}
Range_any(dom) == dom
Range_equal(v) == {v}
Range_intersection(a, b) == a \cap b
Range_negate(dom, r) == dom \ r
Range_contains(r, v) == v \in r

\* ----------------------------------------------------- MatchSpecElement
Element_none == [version |-> Range_none, build_number |-> Range_none]

Element_any == [version |-> Range_any(AllVersions), build_number |-> Range_any(AllBuilds)]

\* Field-wise intersection without the collapse to none().
Element_intersection_fieldwise(a, b) ==
  [version |-> Range_intersection(a.version, b.version),
   build_number |-> Range_intersection(a.build_number, b.build_number)]

Element_intersection(a, b) ==
  LET version == Range_intersection(a.version, b.version)
      build_number == Range_intersection(a.build_number, b.build_number)
  IN IF version = Range_none \/ build_number = Range_none
       THEN Element_none
       ELSE [version |-> version, build_number |-> build_number]

Element_contains(e, package) ==
  /\ Range_contains(e.version, package.version)
  /\ Range_contains(e.build_number, package.build_number)

\* ------------------------------------------------- digest and ordering
RECURSIVE SetCode(_)
SetCode(S) ==
  IF S = {} THEN 0
  ELSE LET m == CHOOSE m \in S : \A n \in S : n <= m
       IN 2 ^ m + SetCode(S \ {m})

\* Every value a MatchSpecElement can take.
MatchSpecElement == [version : SUBSET AllVersions, build_number : SUBSET AllBuilds]

\* DefaultHasher digest of each element: a fixed, value-derived 64-bit
\* number. Modelled as a fixed scrambling of the element's fields that is
\* collision-free on the modelled domains.
DigestTable ==
  [e \in MatchSpecElement |->
     ((SetCode(e.version) * (2 ^ (NumBuilds + 1)) + SetCode(e.build_number)) * 37 + 11) % 1009]

Digest(e) == DigestTable[e]

\* Every sequence a stable sort by digest can produce from a HashSet, whose
\* iteration order is unspecified: all orderings of S with non-decreasing
\* digest.
RECURSIVE SortedByDigest(_)
SortedByDigest(S) ==
  IF S = {} THEN {<<>>}
  ELSE LET least == {e \in S : \A o \in S : Digest(e) <= Digest(o)}
       IN UNION {{<<e>> \o rest : rest \in SortedByDigest(S \ {e})} : e \in least}

\* Vec::dedup: removes consecutive repeated elements.
RECURSIVE Dedup(_)
Dedup(s) ==
  IF Len(s) <= 1 THEN s
  ELSE IF s[1] = s[2] THEN Dedup(Tail(s))
       ELSE <<s[1]>> \o Dedup(Tail(s))

Groups(x) == {x[i] : i \in 1 .. Len(x)}

\* ------------------------------------------------- MatchSpecConstraints
empty == <<>>

full == <<[version |-> Range_any(AllVersions), build_number |-> Range_any(AllBuilds)]>>

singleton(v) ==
  <<[version |-> Range_equal(v.version), build_number |-> Range_equal(v.build_number)]>>

from_match_spec(spec) ==
  <<[version |-> IF spec.version = OptNone THEN Range_any(AllVersions)
                 ELSE CHOOSE r \in spec.version : TRUE,
     build_number |-> IF spec.build_number = OptNone THEN Range_any(AllBuilds)
                      ELSE Range_equal(CHOOSE b \in spec.build_number : TRUE)]>>

from_element(elem) == <<elem>>

contains(x, v) == \E i \in 1 .. Len(x) : Element_contains(x[i], v)

\* A loop iteration that negates the version only.
ComplementStep_versionOnly(groups, spec) ==
  LET version_complement == Range_negate(AllVersions, spec.version)
  IN IF version_complement # Range_none
       THEN {Element_intersection(o, [version |-> version_complement,
                                      build_number |-> Range_any(AllBuilds)])
               : o \in groups} \ {Element_none}
       ELSE {}

\* One iteration of the loop of compute_complement: groups is the
\* accumulator, spec the group being negated.
ComplementStep(groups, spec) ==
  LET version_complement == Range_negate(AllVersions, spec.version)
      build_complement == Range_negate(AllBuilds, spec.build_number)
      fromVersion ==
        IF version_complement # Range_none
          THEN {Element_intersection(o, [version |-> version_complement,
                                         build_number |-> Range_any(AllBuilds)])
                  : o \in groups} \ {Element_none}
          ELSE {}
      fromBuild ==
        IF build_complement # Range_none
          THEN {Element_intersection(o, [version |-> Range_any(AllVersions),
                                         build_number |-> build_complement])
                  : o \in groups} \ {Element_none}
          ELSE {}
  IN fromVersion \cup fromBuild

RECURSIVE ComplementFold(_, _, _)
ComplementFold(x, i, groups) ==
  IF i > Len(x) THEN groups
  ELSE ComplementFold(x, i + 1, ComplementStep(groups, x[i]))

\* compute_complement that answers empty() for empty().
compute_complement_empty(x) ==
  IF Len(x) = 0 THEN {<<>>}
  ELSE SortedByDigest(ComplementFold(x, 1, {Element_any}))

\* The set of values compute_complement can return for x (one value unless
\* two digests collide).
compute_complement(x) ==
  IF Len(x) = 0 THEN {<<Element_any>>}
  ELSE SortedByDigest(ComplementFold(x, 1, {Element_any}))

\* The set of values intersection can return for (a, b).
intersection(a, b) ==
  LET groups == {Element_intersection(a[i], b[j])
                   : i \in 1 .. Len(a), j \in 1 .. Len(b)} \ {Element_none}
  IN IF Element_any \in groups
       THEN {from_element(Element_any)}
       ELSE {Dedup(s) : s \in SortedByDigest(groups)}

\* ----------------------------------------------------------------- state
\* The two constraint sets the resolver is working with. "x" is the set it
\* is building: every constructed or intersected set goes there and
\* complement() is called on it. "y" is a complement it has set aside; the
\* result of a complement() call is kept in either.
Regs == {"x", "y"}

VARIABLES
  val,     \* val[r]: the constraint set the resolver holds in r
  found,   \* result of the last contains() call, if any
  pc,      \* pc[t]: position of thread t inside complement()
  arg,     \* arg[t]: `self` of thread t's running complement() call
  res,     \* res[t]: the local `complement` of thread t's running call
  cache,   \* COMPLEMENT_CACHE: map from constraint set to its complement
  nops     \* number of calls the run may still make

vars == <<val, found, pc, arg, res, cache, nops>>

Init ==
  /\ val = [r \in Regs |-> empty]
  /\ found = OptNone
  /\ pc = [t \in Threads |-> "idle"]
  /\ arg = [t \in Threads |-> empty]
  /\ res = [t \in Threads |-> empty]
  /\ cache = <<>>
  /\ nops = MaxOps

\* The same state, before a run of the algebra alone.
InitSeq ==
  /\ val = [r \in Regs |-> empty]
  /\ found = OptNone
  /\ pc = [t \in Threads |-> "idle"]
  /\ arg = [t \in Threads |-> empty]
  /\ res = [t \in Threads |-> empty]
  /\ cache = <<>>
  /\ nops = MaxCalls

\* A new call is made.
Start ==
  /\ nops > 0
  /\ nops' = nops - 1

\* ------------------------------------------------------------ operations
Empty ==
  /\ Start
  /\ val' = [val EXCEPT !["x"] = empty]
  /\ UNCHANGED <<found, pc, arg, res, cache>>

Full ==
  /\ Start
  /\ val' = [val EXCEPT !["x"] = full]
  /\ UNCHANGED <<found, pc, arg, res, cache>>

Singleton(v) ==
  /\ Start
  /\ val' = [val EXCEPT !["x"] = singleton(v)]
  /\ UNCHANGED <<found, pc, arg, res, cache>>

FromMatchSpec(spec) ==
  /\ Start
  /\ val' = [val EXCEPT !["x"] = from_match_spec(spec)]
  /\ UNCHANGED <<found, pc, arg, res, cache>>

\* val[a].intersection(&val[b])
Intersection(a, b) ==
  /\ Start
  /\ \E i \in intersection(val[a], val[b]) : val' = [val EXCEPT !["x"] = i]
  /\ UNCHANGED <<found, pc, arg, res, cache>>

Contains(r, v) ==
  /\ Start
  /\ found' = OptSome(contains(val[r], v))
  /\ UNCHANGED <<val, pc, arg, res, cache>>

\* --- complement(), called by thread t on val["x"]
\* A read guard kept alive until complement() returns.
Readers_held == {t \in Threads : pc[t] \in {"rlocked", "compute", "computed", "wlocked"}}

\* The read guard lives in the block of the lookup only.
Readers == {t \in Threads : pc[t] = "rlocked"}
Writers == {t \in Threads : pc[t] = "wlocked"}

\* thread t enters complement() with self = val["x"] and requests the read
\* lock
ComplementCall(t) ==
  /\ pc[t] = "idle"
  /\ Start
  /\ arg' = [arg EXCEPT ![t] = val["x"]]
  /\ pc' = [pc EXCEPT ![t] = "rwait"]
  /\ UNCHANGED <<val, found, res, cache>>

\* complement_cache.read(): granted when no writer holds the lock
ComplementReadLock(t) ==
  /\ pc[t] = "rwait"
  /\ Writers = {}
  /\ pc' = [pc EXCEPT ![t] = "rlocked"]
  /\ UNCHANGED <<val, found, arg, res, cache, nops>>

\* read_lock.get(self) is Some(result): return result.clone(), which the
\* caller keeps in r
ComplementHit(t, r) ==
  /\ pc[t] = "rlocked"
  /\ arg[t] \in DOMAIN cache
  /\ val' = [val EXCEPT ![r] = cache[arg[t]]]
  /\ arg' = [arg EXCEPT ![t] = empty]
  /\ pc' = [pc EXCEPT ![t] = "idle"]
  /\ UNCHANGED <<found, res, cache, nops>>

\* read_lock.get(self) is None: the read guard is dropped
ComplementMiss(t) ==
  /\ pc[t] = "rlocked"
  /\ arg[t] \notin DOMAIN cache
  /\ pc' = [pc EXCEPT ![t] = "compute"]
  /\ UNCHANGED <<val, found, arg, res, cache, nops>>

\* let complement = self.compute_complement(), no lock held
ComplementCompute(t) ==
  /\ pc[t] = "compute"
  /\ \E c \in compute_complement(arg[t]) : res' = [res EXCEPT ![t] = c]
  /\ pc' = [pc EXCEPT ![t] = "computed"]
  /\ UNCHANGED <<val, found, arg, cache, nops>>

\* complement_cache.write(): granted when nobody holds the lock
ComplementWriteLock(t) ==
  /\ pc[t] = "computed"
  /\ Readers = {}
  /\ Writers = {}
  /\ pc' = [pc EXCEPT ![t] = "wlocked"]
  /\ UNCHANGED <<val, found, arg, res, cache, nops>>

\* HashMap::insert(k, v)
MapInsert(m, k, v) == [x \in DOMAIN m \cup {k} |-> IF x = k THEN v ELSE m[x]]

\* An insert that stores self as its own complement.
ComplementInsert_self(t, r) ==
  /\ pc[t] = "wlocked"
  /\ cache' = MapInsert(cache, arg[t], arg[t])
  /\ val' = [val EXCEPT ![r] = res[t]]
  /\ arg' = [arg EXCEPT ![t] = empty]
  /\ res' = [res EXCEPT ![t] = empty]
  /\ pc' = [pc EXCEPT ![t] = "idle"]
  /\ UNCHANGED <<found, nops>>

\* An insert into a fresh map that forgets the earlier entries.
ComplementInsert_fresh(t, r) ==
  /\ pc[t] = "wlocked"
  /\ cache' = MapInsert(<<>>, arg[t], res[t])
  /\ val' = [val EXCEPT ![r] = res[t]]
  /\ arg' = [arg EXCEPT ![t] = empty]
  /\ res' = [res EXCEPT ![t] = empty]
  /\ pc' = [pc EXCEPT ![t] = "idle"]
  /\ UNCHANGED <<found, nops>>

\* write_lock.insert(self.clone(), complement.clone()); return complement,
\* which the caller keeps in r
ComplementInsert(t, r) ==
  /\ pc[t] = "wlocked"
  /\ cache' = MapInsert(cache, arg[t], res[t])
  /\ val' = [val EXCEPT ![r] = res[t]]
  /\ arg' = [arg EXCEPT ![t] = empty]
  /\ res' = [res EXCEPT ![t] = empty]
  /\ pc' = [pc EXCEPT ![t] = "idle"]
  /\ UNCHANGED <<found, nops>>

\* Every operation except construction from a match spec.
Step ==
  \/ Empty
  \/ Full
  \/ \E v \in PackageRecord : Singleton(v)
  \/ \E a, b \in Regs : Intersection(a, b)
  \/ \E r \in Regs, v \in PackageRecord : Contains(r, v)
  \/ \E t \in Threads : ComplementCall(t)
  \/ \E t \in Threads : ComplementReadLock(t)
  \/ \E t \in Threads, r \in Regs : ComplementHit(t, r)
  \/ \E t \in Threads : ComplementMiss(t)
  \/ \E t \in Threads : ComplementCompute(t)
  \/ \E t \in Threads : ComplementWriteLock(t)
  \/ \E t \in Threads, r \in Regs : ComplementInsert(t, r)

Next ==
  \/ Step
  \/ \E spec \in MatchSpec : FromMatchSpec(spec)

Spec == Init /\ [][Next]_vars

\* The steps of thread t's running complement() call.
ComplementProgress(t) ==
  \/ ComplementReadLock(t)
  \/ \E r \in Regs : ComplementHit(t, r)
  \/ ComplementMiss(t)
  \/ ComplementCompute(t)
  \/ ComplementWriteLock(t)
  \/ \E r \in Regs : ComplementInsert(t, r)

\* The calls that decide how complement() calls interleave on the lock:
\* complement() itself, on empty(), full() and their complements, which
\* gives hits, misses and concurrent misses on one key. The other
\* operations take no lock.
NextLock ==
  \/ Empty
  \/ Full
  \/ \E t \in Threads : ComplementCall(t)
  \/ \E t \in Threads : ComplementProgress(t)

\* Fair scheduling: a thread inside complement() whose next step stays
\* possible (the lock it asks for stays free) eventually takes it. Nothing
\* forces new calls to be made.
FairSpec == Init /\ [][NextLock]_vars /\ \A t \in Threads : WF_vars(ComplementProgress(t))

\* val["x"].compute_complement(), the result kept in r: the function that
\* complement() evaluates on a miss, applied without the cache.
ComputeComplement(r) ==
  /\ Start
  /\ \E c \in compute_complement(val["x"]) : val' = [val EXCEPT ![r] = c]
  /\ UNCHANGED <<found, pc, arg, res, cache>>

\* The constraint algebra by itself: the constructors and the pure
\* functions applied one after the other by a single caller, to greater
\* depth than the concurrent program allows.
NextSeq ==
  \/ Empty
  \/ Full
  \/ \E v \in PackageRecord : Singleton(v)
  \/ \E spec \in MatchSpec : FromMatchSpec(spec)
  \/ \E a, b \in Regs : Intersection(a, b)
  \/ \E r \in Regs, v \in PackageRecord : Contains(r, v)
  \/ \E r \in Regs : ComputeComplement(r)

SpecSeq == InitSeq /\ [][NextSeq]_vars

\* Match specs whose version expression, if present, admits some version.
SatisfiableMatchSpec == {spec \in MatchSpec : spec.version # OptSome(Range_none)}

NextSat ==
  \/ Step
  \/ \E spec \in SatisfiableMatchSpec : FromMatchSpec(spec)

\* The same program driven only with satisfiable match specs.
SpecSat == Init /\ [][NextSat]_vars

TypeOK ==
  /\ \A t \in Threads : pc[t] \in {"idle", "rwait", "rlocked", "compute", "computed", "wlocked"}
  /\ \A t \in Threads : pc[t] = "idle" => arg[t] = empty /\ res[t] = empty
  /\ nops \in 0 .. MaxCalls

\* ------------------------------------------------------------ properties

\* C1: for every constraint set x the resolver can hold, complement applied
\* four times gives x back, and complement applied three times gives
\* complement(x).
C1_ComplementPeriod ==
  \A r \in Regs :
    \A a \in compute_complement(val[r]) :
      \A b \in compute_complement(a) :
        \A c \in compute_complement(b) :
          /\ c = a
          /\ \A d \in compute_complement(c) : d = val[r]

\* C2: for every constraint set x the resolver can hold, intersection(x, x)
\* is structurally equal to x.
C2_IntersectionIdempotent ==
  \A r \in Regs : intersection(val[r], val[r]) = {val[r]}

\* C3: for every constraint set x the resolver can hold, intersection(x,
\* complement(x)) and intersection(complement(x), x) are both empty().
C3_IntersectComplementEmpty ==
  \A r \in Regs :
    \A c \in compute_complement(val[r]) :
      /\ intersection(val[r], c) = {empty}
      /\ intersection(c, val[r]) = {empty}

\* The resolver holds a set x of three groups or more, which only
\* intersection produces from complements, with a group that excludes two named versions or
\* two named build numbers and still admits the values no input names, and
\* it holds the complement of x.
C3_Witness ==
  \E r, s \in Regs :
    /\ Len(val[r]) >= 3
    /\ \E i \in 1 .. Len(val[r]) :
         \/ /\ OtherVersion \in val[r][i].version
            /\ Cardinality(Versions \ val[r][i].version) >= 2
         \/ /\ OtherBuild \in val[r][i].build_number
            /\ Cardinality(Builds \ val[r][i].build_number) >= 2
    /\ r # s
    /\ val[s] \in compute_complement(val[r])

\* C4: for every constraint set x the resolver can hold, the derived union
\* of complement(x) and complement(complement(x)), that is
\* complement(intersection(complement(x), complement(complement(x)))),
\* is full().
C4_UnionWithComplementFull ==
  \A r \in Regs :
    \A a \in compute_complement(val[r]) :
      \A b \in compute_complement(a) :
        \A i \in intersection(a, b) :
          compute_complement(i) = {full}

\* The resolver holds both operands of the derived union for some set k with
\* groups: complement(k), of several groups, and complement(complement(k)),
\* which is k again.
C4_Witness ==
  \E r, s \in Regs :
    /\ r # s
    /\ Len(val[s]) >= 1
    /\ val[r] \in compute_complement(val[s])
    /\ Len(val[r]) >= 2
    /\ val[s] \in compute_complement(val[r])

\* C5: complement negates membership: for every constraint set x the
\* resolver can hold and every package p, complement(x) contains p exactly
\* when x does not; singleton(p) contains p and its complement does not.
C5_ComplementNegatesMembership ==
  \A r \in Regs :
    \A c \in compute_complement(val[r]) :
      \A p \in PackageRecord :
        /\ contains(c, p) = ~contains(val[r], p)
        /\ val[r] = singleton(p) => (contains(val[r], p) /\ ~contains(c, p))

\* The resolver holds singleton(p) and its complement, and the last
\* contains() call answered false.
C5_Witness ==
  \E r, s \in Regs :
    \E p \in PackageRecord :
      /\ r # s
      /\ val[r] = singleton(p)
      /\ val[s] \in compute_complement(val[r])
      /\ found = OptSome(FALSE)

\* The sets the match-spec constructor builds from a specification with an
\* exact build-number literal.
ExactBuildSpecSets ==
  {from_match_spec(spec) : spec \in {s \in MatchSpec : s.build_number # OptNone}}

\* C6: for two single-group sets A and B built from match specifications
\* with the same version range and different exact build numbers,
\* intersection(A, B) is empty() and intersection(A, A) is A.
C6_ExactBuildSpecs ==
  \A r, s \in Regs :
    (/\ val[r] \in ExactBuildSpecSets
     /\ val[s] \in ExactBuildSpecSets
     /\ val[r][1].version = val[s][1].version)
    => /\ val[r][1].build_number # val[s][1].build_number
            => intersection(val[r], val[s]) = {empty}
       /\ intersection(val[r], val[r]) = {val[r]}

\* No two equal groups, no none() group, and any() only as the sole group.
CanonicalForm(x) ==
  /\ \A i, j \in 1 .. Len(x) : x[i] = x[j] => i = j
  /\ \A i \in 1 .. Len(x) : x[i] # Element_none
  /\ (\E i \in 1 .. Len(x) : x[i] = Element_any) => x = <<Element_any>>

\* C7: every constraint set returned by a constructor, intersection or
\* complement is in canonical form.
C7_CanonicalForm ==
  /\ \A r \in Regs : CanonicalForm(val[r])
  /\ \A t \in Threads : CanonicalForm(res[t])
  /\ \A k \in DOMAIN cache : CanonicalForm(cache[k])

\* Two constraint sets are logically identical when they admit the same
\* (version, build number) pairs, named or not.
LogicallyIdentical(x, y) ==
  \A p \in [version : AllVersions, build_number : AllBuilds] :
    contains(x, p) = contains(y, p)

\* C8: group order is value-derived: any two constraint sets produced by
\* intersection or complement (held by the resolver or stored in the cache)
\* that are logically identical are structurally equal, the same sequence
\* of groups, however they were constructed.
C8_OrderValueDerived ==
  LET produced == {val[r] : r \in Regs} \cup {cache[k] : k \in DOMAIN cache}
  IN \A x, y \in produced : LogicallyIdentical(x, y) => x = y

\* C9: under every interleaving of complement calls, every cache entry maps
\* its key k to compute_complement(k), and every complement call returns
\* compute_complement(self), on a hit as on a miss.
C9_CacheHoldsComplements ==
  \A k \in DOMAIN cache : compute_complement(k) = {cache[k]}

C9_ReturnsComplement ==
  \A t \in Threads :
    (pc[t] \in {"rlocked", "wlocked"} /\ pc'[t] = "idle")
      => \E r \in Regs :
           /\ compute_complement(arg[t]) = {val'[r]}
           /\ \A q \in Regs \ {r} : val'[q] = val[q]

C9_CacheCorrect ==
  /\ [] C9_CacheHoldsComplements
  /\ [][C9_ReturnsComplement]_vars

\* Two threads missed on the same key and computed its complement
\* independently: one has inserted, the other holds the write lock to
\* insert the same key again.
C9_Witness ==
  \E t \in Threads :
    /\ pc[t] = "wlocked"
    /\ arg[t] \in DOMAIN cache
    /\ Len(res[t]) >= 2

\* C10: the cache only grows: in every step every key present stays present
\* and stays mapped to the same value.
C10_CacheMonotone ==
  [][\A k \in DOMAIN cache : k \in DOMAIN cache' /\ cache'[k] = cache[k]]_vars

\* The cache holds two entries while a thread holds the write lock to insert
\* a key that is already present.
C10_Witness ==
  \E t \in Threads :
    /\ pc[t] = "wlocked"
    /\ arg[t] \in DOMAIN cache
    /\ Cardinality(DOMAIN cache) >= 2

\* C11: no complement call blocks indefinitely. A caller holds the read
\* lock only for the lookup and the write lock only for the insert, holds no
\* lock while computing or while asking for the write lock; some running
\* call can always take a step (no deadlock); and under fair scheduling
\* every call that was entered eventually returns.
C11_LockDiscipline ==
  \A t \in Threads :
    /\ t \in Readers => pc[t] = "rlocked"
    /\ t \in Writers => pc[t] = "wlocked"
    /\ pc[t] \in {"rwait", "compute", "computed"} => t \notin Readers \cup Writers

C11_NoDeadlock ==
  (\E t \in Threads : pc[t] # "idle") => \E t \in Threads : ENABLED ComplementProgress(t)

C11_Returns ==
  \A t \in Threads : (pc[t] # "idle") ~> (pc[t] = "idle")

C11_NoIndefiniteBlocking ==
  /\ [] C11_LockDiscipline
  /\ [] C11_NoDeadlock
  /\ C11_Returns

\* One thread has computed a complement and asks for the write lock while
\* another holds the read lock, so the request has to wait.
C11_Witness ==
  \E t, u \in Threads :
    /\ pc[t] = "computed"
    /\ pc[u] = "rlocked"
====
